---- MODULE Spec2Model ----
(***************************************************************************)
(* RSS-Gazette: the feed store (feedhandler.py, FeedHandler) with its JSON *)
(* backing file, the per-feed parser (FeedHandler.parse_feed), the         *)
(* document assembler (generator.py, EpubGenerator.generate_epub) and the  *)
(* feed callbacks of the window (gui.py, EpistleGUI).                      *)
(*                                                                         *)
(* The backing file is modelled as the text json.dump writes, cut into the *)
(* chunks of JSON's grammar ("[", "{", a quoted key, ":", a scalar, ",",   *)
(* "}", "]"); whitespace carries no meaning in JSON and is left out.  A    *)
(* write that fails leaves a prefix of that text on disk.  json.load is a  *)
(* recursive-descent parser over the same chunks.                          *)
(***************************************************************************)
EXTENDS Integers, Sequences, FiniteSets, TLC

(***************************************************************************)
(* Bounds of the model.                                                    *)
(***************************************************************************)
MaxFeeds == 2        \* longest feeds_data list that add_feed is driven to
MaxFaults == 1       \* I/O failures injected into save_feeds per run

(***************************************************************************)
(* Python values.  None is a value distinct from every string used.        *)
(***************************************************************************)
None == "<None>"

DefaultNumArticles == 5

Urls == {"http://a", "http://b"}
Names == {None, "N"}

\* @dataclass FeedConfig(url, name, num_articles=5)
FeedConfig(url, name, num_articles) ==
    [url |-> url, name |-> name, num_articles |-> num_articles]

\* The configurations the calls are made with: two for the same url, one for
\* another.
CfgA == FeedConfig("http://a", "N", DefaultNumArticles)
CfgA2 == FeedConfig("http://a", None, DefaultNumArticles)
CfgB == FeedConfig("http://b", None, DefaultNumArticles)

FeedConfigs == {CfgA, CfgA2, CfgB}

\* The field names of the dataclass, and those without a default.
FeedConfigFields == {"url", "name", "num_articles"}
RequiredFields == {"url", "name"}

(***************************************************************************)
(* JSON text: encoding (json.dump) and decoding (json.load).               *)
(***************************************************************************)
Quote(s) == "\"" \o s \o "\""

\* Every string that occurs inside a JSON document of the model.
StringUniverse ==
    Urls \cup (Names \ {None}) \cup FeedConfigFields \cup {"category", "tech", ""}

NumUniverse == -1..9

\* The type of a Python scalar: an int prints as its digits, a str in quotes.
IsInt(v) == \E n \in NumUniverse : ToString(n) = ToString(v)

\* json encoder for the scalars None, int and str.
EncScalar(v) ==
    IF IsInt(v) THEN ToString(v)
    ELSE IF v = None THEN "null"
    ELSE Quote(v)

\* dataclasses.asdict: the fields in declaration order, as (key, value) pairs.
asdict(feed) ==
    << <<"url", feed.url>>, <<"name", feed.name>>,
       <<"num_articles", feed.num_articles>> >>

RECURSIVE EncMembers(_)
EncMembers(pairs) ==
    IF pairs = <<>> THEN <<>>
    ELSE <<Quote(pairs[1][1]), ":", EncScalar(pairs[1][2])>>
         \o (IF Len(pairs) = 1 THEN <<>> ELSE <<",">>)
         \o EncMembers(Tail(pairs))

\* A JSON object from its ordered (key, value) pairs.
EncObject(pairs) == <<"{">> \o EncMembers(pairs) \o <<"}">>

RECURSIVE EncItems(_)
EncItems(objs) ==
    IF objs = <<>> THEN <<>>
    ELSE EncObject(objs[1])
         \o (IF Len(objs) = 1 THEN <<>> ELSE <<",">>)
         \o EncItems(Tail(objs))

\* A JSON array of objects, each given by its ordered pairs.
EncList(objs) == <<"[">> \o EncItems(objs) \o <<"]">>

\* json.dump([asdict(feed) for feed in feeds_data], file, indent=4)
Serialize(feeds) == EncList([i \in 1..Len(feeds) |-> asdict(feeds[i])])

\* ---- decoding ----
ParseFail == [ok |-> FALSE, t |-> "none", v |-> None]

StringTokens == {Quote(s) : s \in StringUniverse}
NumTokens == {ToString(n) : n \in NumUniverse}

IsStringToken(tok) == tok \in StringTokens

IsScalarToken(tok) == tok = "null" \/ tok \in NumTokens \/ tok \in StringTokens

Unquote(tok) == CHOOSE s \in StringUniverse : Quote(s) = tok

\* The Python value of a scalar token.
DecScalar(tok) ==
    IF tok = "null" THEN None
    ELSE IF IsStringToken(tok) THEN Unquote(tok)
    ELSE CHOOSE n \in NumUniverse : ToString(n) = tok

ScalarTag(tok) ==
    IF tok = "null" THEN "null"
    ELSE IF IsStringToken(tok) THEN "str" ELSE "int"

\* The position of the "}" that closes the object opened at toks[i] = "{"
\* (member values are scalars, objects do not nest); 0 when there is none.
ObjectClose(toks, i) ==
    IF \E j \in (i + 1)..Len(toks) : toks[j] = "}"
    THEN CHOOSE j \in (i + 1)..Len(toks) :
            toks[j] = "}" /\ \A h \in (i + 1)..(j - 1) : toks[h] # "}"
    ELSE 0

\* Between "{" at i and "}" at j: nothing, or members `key : scalar`
\* separated by ",".
MembersOk(toks, i, j) ==
    \/ j = i + 1
    \/ /\ (j - i) % 4 = 0
       /\ \A m \in 0..((j - i) \div 4 - 1) :
             /\ IsStringToken(toks[i + 4 * m + 1])
             /\ toks[i + 4 * m + 2] = ":"
             /\ IsScalarToken(toks[i + 4 * m + 3])
             /\ (i + 4 * m + 4 < j) => toks[i + 4 * m + 4] = ","

\* The dict of the object between i and j; a repeated key keeps its last
\* value, as in Python.
DictOf(toks, i, j) ==
    LET members == 0..((j - i) \div 4 - 1)
        keys == {Unquote(toks[i + 4 * m + 1]) : m \in members}
    IN  [k \in keys |->
           LET m == CHOOSE m \in members :
                      /\ Unquote(toks[i + 4 * m + 1]) = k
                      /\ \A h \in members :
                            Unquote(toks[i + 4 * h + 1]) = k => h <= m
           IN  DecScalar(toks[i + 4 * m + 3])]

\* The position after the array element (an object or a scalar) that starts
\* at i; 0 when there is no well-formed element at i.
ElementEnd(toks, i) ==
    IF i > Len(toks) THEN 0
    ELSE IF toks[i] = "{"
    THEN IF ObjectClose(toks, i) # 0 /\ MembersOk(toks, i, ObjectClose(toks, i))
         THEN ObjectClose(toks, i) + 1 ELSE 0
    ELSE IF IsScalarToken(toks[i]) THEN i + 1
    ELSE 0

\* The value of the well-formed element that starts at i.
ElementAt(toks, i) ==
    IF toks[i] = "{"
    THEN [t |-> "dict", v |-> DictOf(toks, i, ObjectClose(toks, i))]
    ELSE [t |-> ScalarTag(toks[i]), v |-> DecScalar(toks[i])]

\* The start positions of the elements of the array opened at toks[1] = "[",
\* each followed by "," or by the final "]"; <<0>> when the text is not a
\* well-formed array.
ElementStarts(toks) ==
    LET Scan[i \in 1..(Len(toks) + 1)] ==
            LET e == ElementEnd(toks, i) IN
            IF e = 0 \/ e > Len(toks) THEN <<0>>
            ELSE IF toks[e] = "]" THEN (IF e = Len(toks) THEN <<i>> ELSE <<0>>)
            ELSE IF toks[e] = "," THEN <<i>> \o Scan[e + 1]
            ELSE <<0>>
    IN  IF Len(toks) = 2 /\ toks[2] = "]" THEN <<>> ELSE Scan[2]

\* json.load: one value, and nothing after it.  ok = FALSE is JSONDecodeError.
JsonLoad(toks) ==
    IF toks = <<>> THEN ParseFail
    ELSE IF toks[1] = "["
    THEN LET starts == ElementStarts(toks) IN
         IF \E n \in 1..Len(starts) : starts[n] = 0 THEN ParseFail
         ELSE [ok |-> TRUE, t |-> "list",
               v |-> [n \in 1..Len(starts) |-> ElementAt(toks, starts[n])]]
    ELSE IF ElementEnd(toks, 1) = Len(toks) + 1
    THEN [ok |-> TRUE, t |-> ElementAt(toks, 1).t, v |-> ElementAt(toks, 1).v]
    ELSE ParseFail

(***************************************************************************)
(* FeedHandler.load_feeds: from the parsed JSON value to feeds_data.       *)
(***************************************************************************)
RECURSIVE KeysOf(_)
KeysOf(keys) ==
    IF keys = {} THEN <<>>
    ELSE LET k == CHOOSE x \in keys : TRUE
         IN  <<[t |-> "str", v |-> k]>> \o KeysOf(keys \ {k})

\* `for feed_data in raw_data`: a list yields its elements, a dict its keys,
\* a str its characters (the model keeps a non-empty str as one element: each
\* character is a str again); None and int are not iterable (TypeError).
Iterate(raw) ==
    IF raw.t = "list" THEN [ok |-> TRUE, items |-> raw.v]
    ELSE IF raw.t = "dict" THEN [ok |-> TRUE, items |-> KeysOf(DOMAIN raw.v)]
    ELSE IF raw.t = "str"
    THEN [ok |-> TRUE,
          items |-> IF raw.v = "" THEN <<>> ELSE <<[t |-> "str", v |-> raw.v]>>]
    ELSE [ok |-> FALSE, items |-> <<>>]

\* FeedConfig(**feed_data): feed_data must be a mapping whose keys are field
\* names and include the fields without default; values are not validated.
CanMakeFeedConfig(item) ==
    /\ item.t = "dict"
    /\ DOMAIN item.v \subseteq FeedConfigFields
    /\ RequiredFields \subseteq DOMAIN item.v

\* Variant: the name read from the file is dropped.
MakeFeedConfig_NoName(item) ==
    FeedConfig(item.v["url"], None,
               IF "num_articles" \in DOMAIN item.v
               THEN item.v["num_articles"] ELSE DefaultNumArticles)

MakeFeedConfig(item) ==
    FeedConfig(item.v["url"], item.v["name"],
               IF "num_articles" \in DOMAIN item.v
               THEN item.v["num_articles"] ELSE DefaultNumArticles)

\* The body of the try block of load_feeds on the text of an existing file:
\* ok = FALSE stands for the JSONDecodeError or TypeError that is re-raised.
ReadFeeds(text) ==
    LET raw == JsonLoad(text) IN
    IF ~raw.ok THEN [ok |-> FALSE, feeds |-> <<>>]
    ELSE LET it == Iterate(raw) IN
         IF ~it.ok THEN [ok |-> FALSE, feeds |-> <<>>]
         ELSE IF \E i \in 1..Len(it.items) : ~CanMakeFeedConfig(it.items[i])
         THEN [ok |-> FALSE, feeds |-> <<>>]
         ELSE [ok |-> TRUE,
               feeds |-> [i \in 1..Len(it.items) |-> MakeFeedConfig(it.items[i])]]

(***************************************************************************)
(* FeedHandler.parse_feed.  What feedparser.parse(url) gives is an input:  *)
(* the call raises, or it returns a result with an optional HTTP status,   *)
(* the bozo flag and the entries.  An entry is a FeedParserDict with some  *)
(* of the keys; `enrich` is what newspaper does with its link.             *)
(***************************************************************************)
MaxEntries == 3      \* longest list of entries in a parsed feed

EntryFields == {"title", "link", "summary", "published", "author"}

\* The entries the model feeds in: complete; with title and link only and a
\* failing full-text download; without link and title.
EntryKinds ==
    { [has |-> EntryFields, enrich |-> "ok"],
      [has |-> {"title", "link"}, enrich |-> "fail"],
      [has |-> {"summary"}, enrich |-> "fail"] }

Entry(id, kind) == [id |-> id, has |-> kind.has, enrich |-> kind.enrich]

\* The value of a field an entry has; entries differ in every field.
FieldValue(entry, key) == key \o "-" \o ToString(entry.id)

BodyText(entry) == "body-" \o ToString(entry.id)

EntryLists ==
    UNION { [1..n -> EntryKinds] : n \in 0..MaxEntries }

StatusCodes == {200, 404}

NoFeed == [fetch |-> "none", has_status |-> FALSE, status |-> 0, bozo |-> FALSE,
           entries |-> <<>>]

RaisingFeed == [fetch |-> "raise", has_status |-> FALSE, status |-> 0,
                bozo |-> FALSE, entries |-> <<>>]

ParsedFeed(has_status, status, bozo, kinds) ==
    [fetch |-> "ok", has_status |-> has_status,
     status |-> IF has_status THEN status ELSE 0, bozo |-> bozo,
     entries |-> [i \in 1..Len(kinds) |-> Entry(i, kinds[i])]]

CompleteEntry == [has |-> EntryFields, enrich |-> "ok"]

\* What feedparser.parse may give: an exception; a result with the bozo flag
\* or a status other than 200 (its entries are never looked at: the model
\* gives it two complete ones); a result with status 200 or none and any
\* list of entries.
ParsedFeeds ==
    {RaisingFeed}
    \cup { ParsedFeed(hs, st, TRUE, <<CompleteEntry, CompleteEntry>>) :
             hs \in BOOLEAN, st \in StatusCodes }
    \cup { ParsedFeed(TRUE, 404, FALSE, <<CompleteEntry, CompleteEntry>>) }
    \cup { ParsedFeed(hs, 200, FALSE, ks) : hs \in BOOLEAN, ks \in EntryLists }

\* int(text): the int a decimal text stands for; ok = FALSE is the ValueError.
IntOf(text) ==
    IF \E n \in NumUniverse : ToString(n) = text
    THEN [ok |-> TRUE, v |-> CHOOSE n \in NumUniverse : ToString(n) = text]
    ELSE [ok |-> FALSE, v |-> 0]

\* The FeedConfig that EpistleGUI.add_feed builds from the texts of its three
\* entry fields (gui.py 268-270, 285): the number is whatever int() gives for
\* a text that is a number.
NewFeed(url_entry, name_entry, num_entry) ==
    FeedConfig(url_entry,
               IF name_entry = "" THEN "Unnamed Feed" ELSE name_entry,
               IF num_entry = "" THEN DefaultNumArticles ELSE IntOf(num_entry).v)

\* The configurations parse_feed is called with: neither FeedConfig nor the
\* store nor the GUI restricts num_articles to positive numbers.
FetchConfigs ==
    { FeedConfig("http://a", "N", 2), FeedConfig("http://b", None, DefaultNumArticles),
      NewFeed("http://a", "", "-1") }

\* entry.get(key, default)
Get(entry, key, default) ==
    IF key \in entry.has THEN FieldValue(entry, key) ELSE default

\* entry.link raises AttributeError when the entry has no link
HasAttr(entry, key) == key \in entry.has

\* @dataclass Article
Article(title, link, summary, published, author, text) ==
    [title |-> title, link |-> link, summary |-> summary,
     published |-> published, author |-> author, text |-> text]

EnrichmentError == "Error parsing full article content."

\* Variant: the author is read as an attribute, entry.author.
NormalizeEntry_AuthorAttr(entry) ==
    LET inner_raises == (~HasAttr(entry, "link")) \/ entry.enrich = "fail"
        handler_raises == inner_raises /\ ~HasAttr(entry, "link")
        text == IF inner_raises THEN EnrichmentError ELSE BodyText(entry)
    IN  IF handler_raises \/ ~HasAttr(entry, "author")
        THEN [ok |-> FALSE, article |-> Article("", "", None, "", "", None)]
        ELSE [ok |-> TRUE,
              article |-> Article(Get(entry, "title", "No Title"),
                                  Get(entry, "link", ""),
                                  Get(entry, "summary", None),
                                  Get(entry, "published", "No Date"),
                                  Get(entry, "author", "Unknown Author"), text)]

\* Variant: a failed download leaves text = None.
NormalizeEntry_NoPlaceholder(entry) ==
    LET inner_raises == (~HasAttr(entry, "link")) \/ entry.enrich = "fail"
        handler_raises == inner_raises /\ ~HasAttr(entry, "link")
        text == IF inner_raises THEN None ELSE BodyText(entry)
    IN  IF handler_raises
        THEN [ok |-> FALSE, article |-> Article("", "", None, "", "", None)]
        ELSE [ok |-> TRUE,
              article |-> Article(Get(entry, "title", "No Title"),
                                  Get(entry, "link", ""),
                                  Get(entry, "summary", None),
                                  Get(entry, "published", "No Date"),
                                  Get(entry, "author", "Unknown Author"), text)]

\* The body of the loop for one entry (lines 173-204).  ok = FALSE is the
\* AttributeError caught by the outer handler: the entry is skipped.
\* FullText(entry.link) evaluates entry.link inside the inner try; the inner
\* handler evaluates entry.link again for its log message, outside any inner
\* try, so a missing link surfaces there as an AttributeError.
NormalizeEntry(entry) ==
    LET published == Get(entry, "published", "No Date")
        author == Get(entry, "author", "Unknown Author")
        inner_raises == (~HasAttr(entry, "link")) \/ entry.enrich = "fail"
        handler_raises == inner_raises /\ ~HasAttr(entry, "link")
        text == IF inner_raises THEN EnrichmentError ELSE BodyText(entry)
    IN  IF handler_raises
        THEN [ok |-> FALSE, article |-> Article("", "", None, "", "", None)]
        ELSE [ok |-> TRUE,
              article |-> Article(Get(entry, "title", "No Title"),
                                  Get(entry, "link", ""),
                                  Get(entry, "summary", None),
                                  published, author, text)]

\* entries[:n], for n >= 0 the first n, for n < 0 all but the last -n
Slice(entries, n) ==
    LET stop == IF n >= 0 THEN (IF n < Len(entries) THEN n ELSE Len(entries))
                ELSE (IF Len(entries) + n > 0 THEN Len(entries) + n ELSE 0)
    IN  SubSeq(entries, 1, stop)

\* Variant: the loop ends at the first entry that raises.
RECURSIVE NormalizeAll_StopAtError(_)
NormalizeAll_StopAtError(entries) ==
    IF entries = <<>> THEN <<>>
    ELSE LET r == NormalizeEntry(entries[1]) IN
         IF r.ok THEN <<r.article>> \o NormalizeAll_StopAtError(Tail(entries))
         ELSE <<>>

\* for entry in ...: articles.append(article) / continue
RECURSIVE NormalizeAll(_)
NormalizeAll(entries) ==
    IF entries = <<>> THEN <<>>
    ELSE LET r == NormalizeEntry(entries[1]) IN
         (IF r.ok THEN <<r.article>> ELSE <<>>) \o NormalizeAll(Tail(entries))

StatusNot200(parsed_feed) == parsed_feed.has_status /\ parsed_feed.status # 200

\* Variant: the bozo check is missing.
parse_feed_result_NoBozoCheck(feed_config, parsed_feed) ==
    IF parsed_feed.fetch = "raise" THEN [outcome |-> "raised", articles |-> <<>>]
    ELSE IF StatusNot200(parsed_feed) THEN [outcome |-> "returned", articles |-> <<>>]
    ELSE [outcome |-> "returned",
          articles |-> NormalizeAll(Slice(parsed_feed.entries, feed_config.num_articles))]

\* parse_feed(feed_config) on what feedparser.parse gave: it returns a list
\* of Articles, or the exception of the fetch call leaves it.
parse_feed_result(feed_config, parsed_feed) ==
    IF parsed_feed.fetch = "raise" THEN [outcome |-> "raised", articles |-> <<>>]
    ELSE IF StatusNot200(parsed_feed) THEN [outcome |-> "returned", articles |-> <<>>]
    ELSE IF parsed_feed.bozo THEN [outcome |-> "returned", articles |-> <<>>]
    ELSE [outcome |-> "returned",
          articles |-> NormalizeAll(Slice(parsed_feed.entries, feed_config.num_articles))]

(***************************************************************************)
(* EpubGenerator.generate_epub.  The argument is a list of article         *)
(* objects: the Articles parse_feed builds (feedhandler.Article has the    *)
(* six fields of the dataclass), or objects that carry source_name and     *)
(* category as well, the two attributes _create_chapter reads besides.     *)
(* What ebooklib's write_epub does with the output path is an input.       *)
(***************************************************************************)
MaxArticles == 2     \* longest list of articles handed to generate_epub

SourceAttrs == {"source_name", "category"}

\* The Article parse_feed builds for the complete entry number i.
FeedArticle(i) == NormalizeEntry(Entry(i, CompleteEntry)).article

\* The same object with the two further attributes.
WithSource(article) ==
    [f \in DOMAIN article \cup SourceAttrs |->
        IF f \in DOMAIN article THEN article[f]
        ELSE IF f = "source_name" THEN "Feed N" ELSE "tech"]

ArticleShapes == {"feed", "sourced", "untitled"}

ArticleOf(i, shape) ==
    IF shape = "feed" THEN FeedArticle(i)
    ELSE IF shape = "sourced" THEN WithSource(FeedArticle(i))
    ELSE [WithSource(FeedArticle(i)) EXCEPT !.title = ""]

ArticleLists ==
    UNION { { [i \in 1..n |-> ArticleOf(i, shapes[i])] :
                shapes \in [1..n -> ArticleShapes] } : n \in 0..MaxArticles }

\* article.source_name, article.category: AttributeError when missing
HasSourceAttrs(article) == SourceAttrs \subseteq DOMAIN article

\* f"{value}"
Str(v) == IF v = None THEN "None" ELSE v

\* _create_chapter(article, index); ok = FALSE is the AttributeError.
create_chapter(article, index) ==
    IF ~HasSourceAttrs(article)
    THEN [ok |-> FALSE, chapter |-> [title |-> "", file_name |-> "", content |-> <<>>]]
    ELSE [ok |-> TRUE,
          chapter |-> [title |-> article.title,
                       file_name |-> "chapter_" \o ToString(index) \o ".xhtml",
                       content |-> <<Str(article.title), Str(article.source_name),
                                     Str(article.published), Str(article.category),
                                     Str(article.link), Str(article.summary)>>]]

TocLink == [href |-> "nav.xhtml", title |-> "Table of Contents", uid |-> "toc"]

\* book.toc, book.spine and the chapter items added to the book
Book(chapters) ==
    [items |-> chapters, toc |-> <<TocLink>> \o chapters, spine |-> <<"nav">> \o chapters]

Today == "20240101"

Filenames == {None, "paper", "paper.epub"}

EndsWithEpub(filename) == filename = "paper.epub"

\* os.path.join(output_dir, filename), the name completed as lines 180-187 do
OutputPath(filename) ==
    LET named == IF filename = None THEN "newspaper_" \o Today ELSE filename
        full == IF EndsWithEpub(named) THEN named ELSE named \o ".epub"
    IN  "output/" \o full

OutputPaths == {OutputPath(f) : f \in Filenames}

\* What is found at a path: nothing, a complete document, a broken-off one.
NoEpub == [kind |-> "none"]
PartialEpub == [kind |-> "partial"]
EpubFile(book) == [kind |-> "epub", book |-> book]

EmptyOutDir == [p \in OutputPaths |-> NoEpub]

\* epub.write_epub(output_path, book): the archive is written in place; it is
\* completed, or an exception stops it before or after the file was opened.
WriteOutcomes == {"written", "failed_before", "failed_midway"}

write_epub(dir, path, book, w) ==
    IF w = "written" THEN [dir EXCEPT ![path] = EpubFile(book)]
    ELSE IF w = "failed_midway" THEN [dir EXCEPT ![path] = PartialEpub]
    ELSE dir

\* Variant: no check for an empty list.
generate_epub_result_NoEmptyCheck(epub_articles, filename, w, dir) ==
    IF \E i \in 1..Len(epub_articles) : ~create_chapter(epub_articles[i], i).ok
    THEN [outcome |-> "raised", path |-> None, dir |-> dir]
    ELSE LET chapters == [i \in 1..Len(epub_articles) |->
                             create_chapter(epub_articles[i], i).chapter]
             output_path == OutputPath(filename)
         IN  IF w = "written"
             THEN [outcome |-> "returned", path |-> output_path,
                   dir |-> write_epub(dir, output_path, Book(chapters), w)]
             ELSE [outcome |-> "raised", path |-> None,
                   dir |-> write_epub(dir, output_path, Book(chapters), w)]

\* generate_epub(articles, filename): what it returns or that it raises, and
\* the output directory after it.
generate_epub_result(epub_articles, filename, w, dir) ==
    IF epub_articles = <<>>
    THEN [outcome |-> "returned", path |-> "", dir |-> dir]
    ELSE IF \E i \in 1..Len(epub_articles) : ~create_chapter(epub_articles[i], i).ok
    THEN [outcome |-> "raised", path |-> None, dir |-> dir]
    ELSE LET chapters == [i \in 1..Len(epub_articles) |->
                             create_chapter(epub_articles[i], i).chapter]
             output_path == OutputPath(filename)
         IN  IF w = "written"
             THEN [outcome |-> "returned", path |-> output_path,
                   dir |-> write_epub(dir, output_path, Book(chapters), w)]
             ELSE [outcome |-> "raised", path |-> None,
                   dir |-> write_epub(dir, output_path, Book(chapters), w)]

(***************************************************************************)
(* State.                                                                  *)
(***************************************************************************)
VARIABLES
    pc,          \* "new": before FeedHandler(json_path); "ready"; "failed": __init__ raised
    json_path,   \* self.json_path
    feeds_data,  \* self.feeds_data
    dirs,        \* the directories that exist on disk
    file,        \* the backing file: [exists, text]
    faults,      \* I/O failures injected so far
    started_empty, \* the store was empty when it was last loaded
    last,        \* the last store call made on the handler, its arguments and outcome
    fetched,     \* the last parse_feed call: its feed_config, what the feed gave, its outcome
    articles,    \* the list the last parse_feed call returned
    earlier,     \* the parse_feed calls of this run before the last one, summarised
    outdir,      \* the files of the generator's output directory, by path
    epub,        \* the generate_epub call made: its arguments, outcome and the outdir before
    obj,         \* which entries of feeds_data are one object: obj[i] is the first
                 \* position holding the object of position i (kept by the GUI callbacks)
    tree         \* the urls of the rows of the GUI's feed list, as last refreshed

fetchVars == <<fetched, articles, earlier>>

epubVars == <<outdir, epub>>

guiVars == <<obj, tree>>

vars == <<pc, json_path, feeds_data, dirs, file, faults, started_empty, last,
          fetched, articles, earlier, outdir, epub, obj, tree>>

JsonPaths == {"configs/feeds.json", "feeds.json"}

\* os.path.dirname
Dirname(path) == IF path = "configs/feeds.json" THEN "configs" ELSE ""

\* os.path.exists on a directory name: the empty path never exists.
OsPathExists(d) == d # "" /\ d \in dirs

\* os.makedirs creates the directory, except for the empty path.
CanMakedirs(d) == d # ""

NoFile == [exists |-> FALSE, text |-> <<>>]
FileOf(text) == [exists |-> TRUE, text |-> text]

NoCfg == FeedConfig("", None, 0)

MutatingOps == {"add", "remove", "update"}

\* A call and its outcome; retry records that it is a save_feeds made right
\* after an add_feed, remove_feed or update_feed whose save had failed.
Call(op, url, cfg, ok, pre, missing) ==
    [op |-> op, url |-> url, cfg |-> cfg, ok |-> ok, pre |-> pre, missing |-> missing,
     retry |-> op = "save" /\ last.op \in MutatingOps /\ ~last.ok]

WithCategory(feed, category) == Append(asdict(feed), <<"category", category>>)

\* What may be in the backing file before the program starts.
InitialTexts ==
    { Serialize(<<>>), Serialize(<<CfgA>>), Serialize(<<CfgA, CfgB>>),
      \* the documented record format, with a category
      EncList(<<WithCategory(CfgA, None)>>),
      EncList(<<WithCategory(CfgB, "tech"), WithCategory(CfgA, None)>>),
      \* records lacking a field
      EncList(<< << <<"url", "http://a">>, <<"name", "N">> >> >>),
      EncList(<< << <<"url", "http://a">> >> >>),
      \* JSON values that are not arrays
      <<"{", "}">>, EncObject(asdict(CfgA)), <<"null">>, <<"5">>,
      <<Quote("")>>, <<Quote("tech")>>,
      \* an array of something else, an empty file, a truncated file
      <<"[", "5", "]">>, <<>>, SubSeq(Serialize(<<CfgA>>), 1, 6) }

NoEpubCall ==
    [op |-> "none", articles |-> <<>>, filename |-> None, write |-> "written",
     outcome |-> "none", path |-> None, pre |-> EmptyOutDir]

\* The handler before its construction; nothing parsed yet.
InitHandler ==
    /\ pc = "new"
    /\ json_path \in JsonPaths
    /\ feeds_data = <<>>
    /\ dirs \in SUBSET {"configs"}
    /\ file \in {NoFile} \cup {FileOf(t) : t \in InitialTexts}
    /\ file.exists => (Dirname(json_path) = "" \/ Dirname(json_path) \in dirs)
    /\ faults = 0
    /\ started_empty = FALSE
    /\ last = Call("none", "", NoCfg, TRUE, <<>>, FALSE)
    /\ fetched = [cfg |-> NoCfg, feed |-> NoFeed, outcome |-> "none"]
    /\ articles = <<>>
    /\ earlier = <<>>

Init ==
    /\ InitHandler
    /\ outdir = EmptyOutDir
    /\ epub = NoEpubCall
    /\ obj = <<>>
    /\ tree = <<>>

(***************************************************************************)
(* load_feeds, as called by __init__ (op = "init") or directly ("load").   *)
(***************************************************************************)
load_feeds(op) ==
    LET directory == Dirname(json_path)
        missing == ~file.exists
    IN
    IF (~OsPathExists(directory)) /\ ~CanMakedirs(directory)
    THEN \* os.makedirs raises FileNotFoundError
         /\ last' = Call(op, "", NoCfg, FALSE, feeds_data, missing)
         /\ pc' = IF op = "init" THEN "failed" ELSE pc
         /\ UNCHANGED <<json_path, feeds_data, dirs, file, faults, started_empty, fetchVars, epubVars, guiVars>>
    ELSE
         /\ dirs' = dirs \cup {directory}
         /\ IF ~file.exists
            THEN /\ file' = FileOf(EncList(<<>>))
                 /\ feeds_data' = <<>>
                 /\ started_empty' = TRUE
                 /\ last' = Call(op, "", NoCfg, TRUE, feeds_data, missing)
                 /\ pc' = "ready"
            ELSE LET r == ReadFeeds(file.text) IN
                 /\ file' = file
                 /\ feeds_data' = IF r.ok THEN r.feeds ELSE feeds_data
                 /\ started_empty' = IF r.ok THEN r.feeds = <<>> ELSE started_empty
                 /\ last' = Call(op, "", NoCfg, r.ok, feeds_data, missing)
                 /\ pc' = IF r.ok THEN "ready"
                          ELSE IF op = "init" THEN "failed" ELSE pc
         /\ UNCHANGED <<json_path, faults, fetchVars, epubVars, guiVars>>

\* FeedHandler(json_path)
Construct ==
    /\ pc = "new"
    /\ load_feeds("init")

\* handler.load_feeds()
LoadFeeds ==
    /\ pc = "ready"
    /\ load_feeds("load")

(***************************************************************************)
(* save_feeds.  open(json_path, 'w') truncates the file in place and       *)
(* json.dump writes the text into it; an IOError is logged and re-raised.  *)
(* The outcome k of one call is the number of chunks that reached the      *)
(* disk: all of them when the call succeeds, fewer when the write fails,   *)
(* OpenFails when open itself fails and the file is not touched.  Of the   *)
(* places where a write can stop the model takes two: before the first     *)
(* chunk (the file stays truncated) and before the last chunk.             *)
(***************************************************************************)
OpenFails == -1

CutPoints(text) == {0, Len(text) - 1}

SaveOutcomes(text) ==
    {Len(text)} \cup (IF faults < MaxFaults THEN {OpenFails} \cup CutPoints(text) ELSE {})

Saved(text, k) == k = Len(text)

WriteFile(text, k) ==
    IF k = OpenFails THEN file ELSE FileOf(SubSeq(text, 1, k))

save_feeds(data, k) ==
    /\ file' = WriteFile(Serialize(data), k)
    /\ faults' = IF Saved(Serialize(data), k) THEN faults ELSE faults + 1

\* handler.save_feeds()
SaveFeeds ==
    /\ pc = "ready"
    /\ \E k \in SaveOutcomes(Serialize(feeds_data)) :
          /\ save_feeds(feeds_data, k)
          /\ last' = Call("save", "", NoCfg, Saved(Serialize(feeds_data), k),
                          feeds_data, FALSE)
    /\ UNCHANGED <<pc, json_path, feeds_data, dirs, started_empty, fetchVars, epubVars, guiVars>>

(***************************************************************************)
(* add_feed, remove_feed, update_feed.                                     *)
(***************************************************************************)
\* self.feeds_data.append(feed_config)
AppendFeed(feeds, feed_config) == Append(feeds, feed_config)

\* Variant: the list is put back when the save fails.
add_feed_Rollback(feed_config) ==
    /\ pc = "ready"
    /\ Len(feeds_data) < MaxFeeds
    /\ LET new == AppendFeed(feeds_data, feed_config) IN
       \E k \in SaveOutcomes(Serialize(new)) :
          /\ feeds_data' = IF Saved(Serialize(new), k) THEN new ELSE feeds_data
          /\ save_feeds(new, k)
          /\ last' = Call("add", feed_config.url, feed_config,
                          Saved(Serialize(new), k), feeds_data, FALSE)
    /\ UNCHANGED <<pc, json_path, dirs, started_empty, fetchVars, epubVars, guiVars>>

add_feed(feed_config) ==
    /\ pc = "ready"
    /\ Len(feeds_data) < MaxFeeds
    /\ LET new == AppendFeed(feeds_data, feed_config) IN
       \E k \in SaveOutcomes(Serialize(new)) :
          /\ feeds_data' = new
          /\ save_feeds(new, k)
          /\ last' = Call("add", feed_config.url, feed_config,
                          Saved(Serialize(new), k), feeds_data, FALSE)
    /\ UNCHANGED <<pc, json_path, dirs, started_empty, fetchVars, epubVars, guiVars>>

\* Variant: only the first matching entry is removed (list.remove).
RECURSIVE RemoveMatching_First(_, _)
RemoveMatching_First(feeds, url) ==
    IF feeds = <<>> THEN <<>>
    ELSE IF feeds[1].url # url
    THEN <<feeds[1]>> \o RemoveMatching_First(Tail(feeds), url)
    ELSE Tail(feeds)

\* [feed for feed in self.feeds_data if feed.url != url]
RECURSIVE RemoveMatching(_, _)
RemoveMatching(feeds, url) ==
    IF feeds = <<>> THEN <<>>
    ELSE IF feeds[1].url # url
    THEN <<feeds[1]>> \o RemoveMatching(Tail(feeds), url)
    ELSE RemoveMatching(Tail(feeds), url)

remove_feed(url) ==
    /\ pc = "ready"
    /\ LET new == RemoveMatching(feeds_data, url) IN
       \E k \in SaveOutcomes(Serialize(new)) :
          /\ feeds_data' = new
          /\ save_feeds(new, k)
          /\ last' = Call("remove", url, NoCfg, Saved(Serialize(new), k),
                          feeds_data, FALSE)
    /\ UNCHANGED <<pc, json_path, dirs, started_empty, fetchVars, epubVars, guiVars>>

\* Variant: the matching entry is kept and feed_config inserted before it
\* (list.insert in place of the item assignment).
RECURSIVE ReplaceFirst_Insert(_, _, _)
ReplaceFirst_Insert(feeds, url, feed_config) ==
    IF feeds = <<>> THEN <<>>
    ELSE IF feeds[1].url = url THEN <<feed_config>> \o feeds
    ELSE <<feeds[1]>> \o ReplaceFirst_Insert(Tail(feeds), url, feed_config)

\* Variant: the loop has no break, every matching entry is replaced.
RECURSIVE ReplaceFirst_All(_, _, _)
ReplaceFirst_All(feeds, url, feed_config) ==
    IF feeds = <<>> THEN <<>>
    ELSE IF feeds[1].url = url
    THEN <<feed_config>> \o ReplaceFirst_All(Tail(feeds), url, feed_config)
    ELSE <<feeds[1]>> \o ReplaceFirst_All(Tail(feeds), url, feed_config)

\* for i, feed in enumerate(self.feeds_data):
\*     if feed.url == url: self.feeds_data[i] = feed_config; break
RECURSIVE ReplaceFirst(_, _, _)
ReplaceFirst(feeds, url, feed_config) ==
    IF feeds = <<>> THEN <<>>
    ELSE IF feeds[1].url = url THEN <<feed_config>> \o Tail(feeds)
    ELSE <<feeds[1]>> \o ReplaceFirst(Tail(feeds), url, feed_config)

\* The first position of feeds holding url.
FirstIndex(feeds, url) ==
    CHOOSE i \in 1..Len(feeds) :
        feeds[i].url = url /\ \A j \in 1..(i - 1) : feeds[j].url # url

\* Variant: save_feeds is called only in the branch that found a match.
update_feed_SaveOnMatch(url, feed_config) ==
    /\ pc = "ready"
    /\ LET new == ReplaceFirst(feeds_data, url, feed_config)
           matched == \E i \in 1..Len(feeds_data) : feeds_data[i].url = url
       IN
       \E k \in SaveOutcomes(Serialize(new)) :
          /\ feeds_data' = new
          /\ IF matched THEN save_feeds(new, k)
             ELSE k = Len(Serialize(new)) /\ UNCHANGED <<file, faults>>
          /\ last' = Call("update", url, feed_config, Saved(Serialize(new), k),
                          feeds_data, FALSE)
    /\ UNCHANGED <<pc, json_path, dirs, started_empty, fetchVars, epubVars, guiVars>>

update_feed(url, feed_config) ==
    /\ pc = "ready"
    /\ LET new == ReplaceFirst(feeds_data, url, feed_config) IN
       \E k \in SaveOutcomes(Serialize(new)) :
          /\ feeds_data' = new
          /\ save_feeds(new, k)
          /\ last' = Call("update", url, feed_config, Saved(Serialize(new), k),
                          feeds_data, FALSE)
    /\ UNCHANGED <<pc, json_path, dirs, started_empty, fetchVars, epubVars, guiVars>>

(***************************************************************************)
(* The store: construction, then any sequence of calls.                    *)
(***************************************************************************)
NextStore ==
    \/ Construct
    \/ LoadFeeds
    \/ SaveFeeds
    \/ \E cfg \in FeedConfigs : add_feed(cfg)
    \/ \E url \in Urls : remove_feed(url)
    \/ \E url \in Urls, cfg \in FeedConfigs : update_feed(url, cfg)

SpecStore == Init /\ [][NextStore]_vars

TypeOK ==
    /\ pc \in {"new", "ready", "failed"}
    /\ json_path \in JsonPaths
    /\ faults \in 0..(MaxFaults + 1)
    /\ file.exists \in BOOLEAN

(***************************************************************************)
(* A run over several feeds: parse_feed is called for one feed after the   *)
(* other; an exception that leaves parse_feed ends the run.                *)
(***************************************************************************)
MaxCalls == 2        \* parse_feed calls in one run

Summary(call, arts) ==
    [bad |-> call.feed.fetch = "ok" /\ (StatusNot200(call.feed) \/ call.feed.bozo),
     outcome |-> call.outcome,
     empty |-> arts = <<>>]

\* handler.parse_feed(feed_config)
parse_feed(feed_config, parsed_feed) ==
    /\ pc = "ready"
    /\ fetched.outcome # "raised"
    /\ Len(earlier) < MaxCalls - 1 \/ fetched.outcome = "none"
    /\ LET r == parse_feed_result(feed_config, parsed_feed) IN
       /\ fetched' = [cfg |-> feed_config, feed |-> parsed_feed, outcome |-> r.outcome]
       /\ articles' = r.articles
    /\ earlier' = IF fetched.outcome = "none" THEN earlier
                  ELSE Append(earlier, Summary(fetched, articles))
    /\ UNCHANGED <<pc, json_path, feeds_data, dirs, file, faults, started_empty, last,
                   epubVars, guiVars>>

\* The handler of a new installation: no backing file yet.
InitFetch ==
    /\ Init
    /\ json_path = "configs/feeds.json"
    /\ file = NoFile
    /\ dirs = {}

NextFetch ==
    \/ Construct
    \/ \E cfg \in FetchConfigs, feed \in ParsedFeeds : parse_feed(cfg, feed)

SpecFetch == InitFetch /\ [][NextFetch]_vars

(***************************************************************************)
(* One generate_epub call on an output directory that is empty or holds    *)
(* the document of an earlier run.                                         *)
(***************************************************************************)
OldBook == Book(<<create_chapter(ArticleOf(1, "sourced"), 1).chapter>>)

InitialOutDirs ==
    {EmptyOutDir} \cup {[EmptyOutDir EXCEPT ![p] = EpubFile(OldBook)] : p \in OutputPaths}

\* generator.generate_epub(articles, filename)
generate_epub(epub_articles, filename, w) ==
    /\ epub.op = "none"
    /\ LET r == generate_epub_result(epub_articles, filename, w, outdir) IN
       /\ outdir' = r.dir
       /\ epub' = [op |-> "generate", articles |-> epub_articles, filename |-> filename,
                   write |-> w, outcome |-> r.outcome, path |-> r.path, pre |-> outdir]
    /\ UNCHANGED <<pc, json_path, feeds_data, dirs, file, faults, started_empty, last,
                   fetchVars, guiVars>>

InitEpub ==
    /\ InitHandler
    /\ json_path = "configs/feeds.json"
    /\ file = NoFile
    /\ dirs = {}
    /\ outdir \in InitialOutDirs
    /\ epub = NoEpubCall
    /\ obj = <<>>
    /\ tree = <<>>

NextEpub ==
    \E epub_articles \in ArticleLists, filename \in Filenames, w \in WriteOutcomes :
        generate_epub(epub_articles, filename, w)

SpecEpub == InitEpub /\ [][NextEpub]_vars

(***************************************************************************)
(* The callbacks of the Feeds tab: EpistleGUI.add_feed, edit_feed and      *)
(* delete_feed on self.handler, the FeedHandler that __init__ creates at   *)
(* line 25.  (Line 26 calls EpubGenerator() without the config its         *)
(* __init__ requires; the callbacks are modelled for a window that exists.) *)
(* Their inputs are the texts of the three entry fields and the selected   *)
(* row of the feed list.  edit_feed changes the FeedConfig object it finds *)
(* in place, so it matters which entries of feeds_data are one object.     *)
(***************************************************************************)
UrlTails == {"a", "b", "c"}

\* url.startswith("http://") or url.startswith("https://")
StartsWithHttp(url) ==
    \E tail \in UrlTails : url = "http://" \o tail \/ url = "https://" \o tail

UrlTexts == {"", "http://a", "https://b", "ftp://c"}
NameTexts == {"", "N"}
NumTexts == {"", "x"}

\* self.tree.selection(): no row (0) or one of the rows
Selections == 0..MaxFeeds

\* text or default
Or(text, default) == IF text = "" THEN default ELSE text

\* int(text or default) raises ValueError
IntRaises(text) == text # "" /\ ~IntOf(text).ok

UrlsOf(feeds) == [i \in 1..Len(feeds) |-> feeds[i].url]

Least(S) == CHOOSE x \in S : \A y \in S : x <= y

\* obj in its normal form: every object named by its first position.
Canon(ids) == [i \in 1..Len(ids) |-> Least({j \in 1..Len(ids) : ids[j] = ids[i]})]

\* The positions remove_feed keeps, in order.
RECURSIVE KeptFrom(_, _, _)
KeptFrom(feeds, url, i) ==
    IF i > Len(feeds) THEN <<>>
    ELSE (IF feeds[i].url # url THEN <<i>> ELSE <<>>) \o KeptFrom(feeds, url, i + 1)

\* EpistleGUI.add_feed
gui_add_feed(url_entry, name_entry, num_entry) ==
    /\ pc = "ready"
    /\ IF \/ IntRaises(num_entry)
          \/ ~StartsWithHttp(url_entry)
          \/ \E i \in 1..Len(feeds_data) : feeds_data[i].url = url_entry
       THEN \* ValueError, or an error box and return
            UNCHANGED vars
       ELSE /\ Len(feeds_data) < MaxFeeds
            /\ LET new_feed == NewFeed(url_entry, name_entry, num_entry)
                   new == AppendFeed(feeds_data, new_feed)
               IN  \E k \in SaveOutcomes(Serialize(new)) :
                      /\ feeds_data' = new
                      /\ obj' = Append(obj, Len(obj) + 1)
                      /\ save_feeds(new, k)
                      /\ last' = Call("add", url_entry, new_feed,
                                      Saved(Serialize(new), k), feeds_data, FALSE)
                      /\ tree' = IF Saved(Serialize(new), k) THEN UrlsOf(new) ELSE tree
            /\ UNCHANGED <<pc, json_path, dirs, started_empty, fetchVars, epubVars>>

\* The list after the in-place changes of edit_feed to the object of
\* position i, up to the name only or through all three fields.
EditedInPlace(i, url_entry, name_entry, num_entry, all) ==
    [p \in 1..Len(feeds_data) |->
        IF obj[p] # obj[i] THEN feeds_data[p]
        ELSE LET feed == feeds_data[p] IN
             IF all
             THEN FeedConfig(Or(url_entry, feed.url), Or(name_entry, feed.name),
                             IF num_entry = "" THEN feed.num_articles
                             ELSE IntOf(num_entry).v)
             ELSE FeedConfig(feed.url, Or(name_entry, feed.name), feed.num_articles)]

\* EpistleGUI.edit_feed; selected = 0 when no row is selected
gui_edit_feed(selected, url_entry, name_entry, num_entry) ==
    /\ pc = "ready"
    /\ selected <= Len(tree)
    /\ IF selected = 0 \/ \A i \in 1..Len(feeds_data) : feeds_data[i].url # tree[selected]
       THEN UNCHANGED vars
       ELSE LET feed_url == tree[selected]
                i == FirstIndex(feeds_data, feed_url)
            IN  IF IntRaises(num_entry)
                THEN \* feed.name is set, then int() raises ValueError
                     /\ feeds_data' = EditedInPlace(i, url_entry, name_entry, num_entry, FALSE)
                     /\ UNCHANGED <<pc, json_path, dirs, file, faults, started_empty, last,
                                    fetchVars, epubVars, guiVars>>
                ELSE LET edited == EditedInPlace(i, url_entry, name_entry, num_entry, TRUE)
                         feed == edited[i]
                         new == ReplaceFirst(edited, feed_url, feed)
                         found == \E j \in 1..Len(edited) : edited[j].url = feed_url
                     IN  \E k \in SaveOutcomes(Serialize(new)) :
                            /\ feeds_data' = new
                            /\ obj' = IF found
                                      THEN Canon([obj EXCEPT ![FirstIndex(edited, feed_url)] = obj[i]])
                                      ELSE obj
                            /\ save_feeds(new, k)
                            /\ last' = Call("update", feed_url, feed,
                                            Saved(Serialize(new), k), edited, FALSE)
                            /\ tree' = IF Saved(Serialize(new), k) THEN UrlsOf(new) ELSE tree
                            /\ UNCHANGED <<pc, json_path, dirs, started_empty, fetchVars, epubVars>>

\* EpistleGUI.delete_feed; selected = 0 when no row is selected
gui_delete_feed(selected) ==
    /\ pc = "ready"
    /\ selected <= Len(tree)
    /\ IF selected = 0
       THEN UNCHANGED vars
       ELSE LET feed_url == tree[selected]
                new == RemoveMatching(feeds_data, feed_url)
                kept == KeptFrom(feeds_data, feed_url, 1)
            IN  \E k \in SaveOutcomes(Serialize(new)) :
                   /\ feeds_data' = new
                   /\ obj' = Canon([n \in 1..Len(kept) |-> obj[kept[n]]])
                   /\ save_feeds(new, k)
                   /\ last' = Call("remove", feed_url, NoCfg,
                                   Saved(Serialize(new), k), feeds_data, FALSE)
                   /\ tree' = IF Saved(Serialize(new), k) THEN UrlsOf(new) ELSE tree
                   /\ UNCHANGED <<pc, json_path, dirs, started_empty, fetchVars, epubVars>>

NextGui ==
    \/ Construct
    \/ \E url_entry \in UrlTexts, name_entry \in NameTexts, num_entry \in NumTexts :
          gui_add_feed(url_entry, name_entry, num_entry)
    \/ \E selected \in Selections, url_entry \in UrlTexts, name_entry \in NameTexts,
          num_entry \in NumTexts :
          gui_edit_feed(selected, url_entry, name_entry, num_entry)
    \/ \E selected \in Selections : gui_delete_feed(selected)

\* A new installation: the store starts empty.
SpecGui == InitFetch /\ [][NextGui]_vars

(***************************************************************************)
(* Properties of the store.                                                *)
(***************************************************************************)
LoadOps == {"init", "load"}

Count(feeds, url) == Cardinality({i \in 1..Len(feeds) : feeds[i].url = url})

UniqueUrls(feeds) ==
    \A i, j \in 1..Len(feeds) : feeds[i].url = feeds[j].url => i = j

\* The records of a JSON text are exactly the given feeds, in order.
HoldsRecords(text, feeds) ==
    LET r == JsonLoad(text) IN
    /\ r.ok /\ r.t = "list"
    /\ Len(r.v) = Len(feeds)
    /\ \A i \in 1..Len(feeds) :
          /\ r.v[i].t = "dict"
          /\ DOMAIN r.v[i].v = FeedConfigFields
          /\ \A f \in FeedConfigFields : r.v[i].v[f] = feeds[i][f]

\* C1 (as stated): starting from an empty store, after any sequence of
\* add_feed, remove_feed and update_feed calls feeds_data holds at most one
\* FeedConfig per url.
C1_Original == (started_empty /\ faults = 0) => UniqueUrls(feeds_data)

\* The arguments under which a call cannot introduce a second entry for a url.
FreshUrlArgs(call) ==
    /\ call.op = "add" => Count(call.pre, call.cfg.url) = 0
    /\ call.op = "update" =>
          \/ Count(call.pre, call.url) = 0
          \/ call.cfg.url = call.url
          \/ Count(call.pre, call.cfg.url) = 0

\* C1 (amended): a call on a store with at most one FeedConfig per url leaves
\* at most one FeedConfig per url when it is remove_feed, add_feed with a url
\* not in the store, or update_feed with a config whose url is the updated one
\* or is not in the store.
C1_UniquePreserved ==
    (last.op \in MutatingOps /\ UniqueUrls(last.pre) /\ FreshUrlArgs(last))
        => UniqueUrls(feeds_data)

C1_Witness ==
    /\ last.op = "update" /\ Count(last.pre, last.url) = 1
    /\ last.cfg.url = last.url /\ Len(feeds_data) = 2
    /\ UniqueUrls(last.pre) /\ UniqueUrls(feeds_data)

\* C2: when add_feed, remove_feed or update_feed returns normally, the
\* records in the backing file are exactly feeds_data, in the same order.
C2_FileMatchesMemory ==
    (last.op \in MutatingOps /\ last.ok)
        => (file.exists /\ HoldsRecords(file.text, feeds_data))

\* an update_feed that matched nothing, after a failed save had left the file
\* behind the list in memory
C2_Witness ==
    /\ last.op = "update" /\ last.ok /\ Count(last.pre, last.url) = 0
    /\ faults > 0 /\ feeds_data # <<>>
    /\ HoldsRecords(file.text, feeds_data)

\* C3: a save over a completely written file, whether it fails or not, leaves
\* in the file either the complete previous content or the complete new
\* serialization, never a part of it.
C3_Original ==
    [][ (last'.op \in (MutatingOps \cup {"save"}) /\ file = FileOf(Serialize(feeds_data)))
          => (file' = file \/ file' = FileOf(Serialize(feeds_data'))) ]_vars

\* C4: when the backing file does not exist, load_feeds does not raise,
\* leaves feeds_data empty and the file exists holding an empty collection.
C4_Original ==
    (last.op \in LoadOps /\ last.missing)
        => (last.ok /\ feeds_data = <<>> /\ file.exists
            /\ HoldsRecords(file.text, <<>>))

\* A JSON text that is a list of records with FeedConfig's fields.
WellFormedStore(text) ==
    LET r == JsonLoad(text) IN
    /\ r.ok /\ r.t = "list"
    /\ \A i \in 1..Len(r.v) :
          /\ r.v[i].t = "dict"
          /\ DOMAIN r.v[i].v \subseteq FeedConfigFields
          /\ RequiredFields \subseteq DOMAIN r.v[i].v

\* C5: load_feeds on an existing file with malformed content (its directory
\* being there) raises and leaves feeds_data as it was.
C5_Original ==
    (last.op \in LoadOps /\ ~last.missing /\ Dirname(json_path) \in dirs
        /\ ~WellFormedStore(file.text))
        => (~last.ok /\ feeds_data = last.pre)

\* A JSON text in the documented format: a list of records with exactly the
\* keys url, name, num_articles and category.
DocumentedFormat(text) ==
    LET r == JsonLoad(text) IN
    /\ r.ok /\ r.t = "list"
    /\ \A i \in 1..Len(r.v) :
          /\ r.v[i].t = "dict"
          /\ DOMAIN r.v[i].v = {"url", "name", "num_articles", "category"}

\* C6: load_feeds on a file in the documented format (its directory being
\* there) succeeds, and what save_feeds then writes holds the same records in
\* the same order.
C6_Original ==
    (last.op \in LoadOps /\ ~last.missing /\ Dirname(json_path) \in dirs
        /\ DocumentedFormat(file.text))
        => (last.ok /\ JsonLoad(Serialize(feeds_data)).v = JsonLoad(file.text).v)

\* What load_feeds yields after an update_feed(url, cfg) that returned: one
\* record for url, equal to cfg, in a store as long as before the update.
UpdateThenLoad(call) ==
    LET r == ReadFeeds(file.text) IN
    /\ r.ok
    /\ Count(r.feeds, call.url) = 1
    /\ \A i \in 1..Len(r.feeds) : r.feeds[i].url = call.url => r.feeds[i] = call.cfg
    /\ Len(r.feeds) = Len(call.pre)

\* C7 (as stated): for every store, every url present in it and every cfg,
\* update_feed(url, cfg) followed by load_feeds yields exactly one record for
\* url, equal to cfg, and a store of the same length.
C7_Original ==
    (last.op = "update" /\ last.ok /\ Count(last.pre, last.url) >= 1)
        => UpdateThenLoad(last)

\* C7 (amended): the same for a store that holds exactly one record for url
\* and a cfg whose url is url.
C7_UpdateThenLoad ==
    (last.op = "update" /\ last.ok /\ Count(last.pre, last.url) = 1
        /\ last.cfg.url = last.url)
        => UpdateThenLoad(last)

C7_Witness ==
    /\ last.op = "update" /\ last.ok /\ Count(last.pre, last.url) = 1
    /\ last.cfg.url = last.url
    /\ \E i \in 1..Len(last.pre) : last.pre[i].url = last.url /\ last.pre[i] # last.cfg
    /\ Len(last.pre) = 2
    /\ UpdateThenLoad(last)

\* The entries of feeds whose url is not url, in their order.
Others(feeds, url) == SelectSeq(feeds, LAMBDA f : f.url # url)

\* C8: remove_feed(url) deletes every entry with that url and keeps the
\* others in order; a second remove_feed(url) changes neither the list nor,
\* when both calls return, the file.
C8_RemoveIdempotent ==
    [][ last'.op = "remove" =>
          /\ Count(feeds_data', last'.url) = 0
          /\ feeds_data' = Others(feeds_data, last'.url)
          /\ (last.op = "remove" /\ last.url = last'.url) =>
                /\ feeds_data' = feeds_data
                /\ (last.ok /\ last'.ok) => file' = file ]_vars

C8_Witness ==
    /\ last.op = "remove" /\ last.ok
    /\ Count(last.pre, last.url) >= 1 /\ Len(last.pre) = 2
    /\ feeds_data = Others(last.pre, last.url)

\* C9: update_feed(url, config) replaces the first entry with that url and
\* changes no other position; when none matches feeds_data is unchanged; in
\* both cases the store is saved.
C9_UpdateFrame ==
    last.op = "update" =>
        /\ Len(feeds_data) = Len(last.pre)
        /\ IF Count(last.pre, last.url) = 0
           THEN feeds_data = last.pre
           ELSE LET i == FirstIndex(last.pre, last.url) IN
                /\ feeds_data[i] = last.cfg
                /\ \A j \in 1..Len(last.pre) : j # i => feeds_data[j] = last.pre[j]
        /\ last.ok => file = FileOf(Serialize(feeds_data))

\* two entries share the url: the first is replaced, the second is kept
C9_Witness ==
    /\ last.op = "update" /\ Count(last.pre, last.url) = 2
    /\ feeds_data[1] = last.cfg /\ last.pre[1] # last.cfg
    /\ feeds_data[2] = last.pre[2] /\ feeds_data[2] # last.cfg

(***************************************************************************)
(* Properties of parse_feed.                                               *)
(***************************************************************************)
\* The parse result carries a non-200 status or has the bozo flag set.
BadFeed(feed) ==
    feed.fetch = "ok" /\ ((feed.has_status /\ feed.status # 200) \/ feed.bozo)

\* C10: parse_feed on a feed whose parse result carries a non-200 status or
\* has the bozo flag set returns an empty list without raising, and the
\* results of the other feeds of the run are what they were.
C10_BadFeedEmpty ==
    /\ (fetched.outcome # "none" /\ BadFeed(fetched.feed))
          => (fetched.outcome = "returned" /\ articles = <<>>)
    /\ \A i \in 1..Len(earlier) :
          earlier[i].bad => (earlier[i].outcome = "returned" /\ earlier[i].empty)

\* a bad feed first, then a feed whose Articles are returned
C10_Witness ==
    /\ Len(earlier) = 1 /\ earlier[1].bad /\ earlier[1].outcome = "returned"
    /\ fetched.outcome = "returned" /\ ~BadFeed(fetched.feed)
    /\ Len(articles) = 2

\* C11: parse_feed never propagates an exception to its caller: whatever is
\* raised while contacting or parsing the feed ends in a normal return, with
\* an empty result when it was the fetch call that raised.
C11_Original ==
    fetched.outcome # "none"
        => /\ fetched.outcome = "returned"
           /\ fetched.feed.fetch = "raise" => articles = <<>>

\* parse_feed went on to the entries of the feed it fetched.
EntriesRead ==
    /\ fetched.outcome = "returned"
    /\ fetched.feed.fetch = "ok" /\ ~BadFeed(fetched.feed)

\* The entries the loop of the last call went over.
Consumed == Slice(fetched.feed.entries, fetched.cfg.num_articles)

\* The Articles that carry the link of an entry.
ArticlesOf(entry) ==
    {j \in 1..Len(articles) : articles[j].link = FieldValue(entry, "link")}

DerivedFrom(article, entry) == article.link = Get(entry, "link", "")

\* C12: parse_feed returns at most num_articles Articles (none when the
\* number is not positive), each derived from one of the first num_articles
\* entries of the feed.
C12_Original ==
    fetched.outcome = "returned"
        => /\ Len(articles) <= (IF fetched.cfg.num_articles < 0 THEN 0
                                ELSE fetched.cfg.num_articles)
           /\ \A j \in 1..Len(articles) :
                 \E i \in 1..Len(fetched.feed.entries) :
                    /\ i <= fetched.cfg.num_articles
                    /\ DerivedFrom(articles[j], fetched.feed.entries[i])

Bare(entry) ==
    "link" \in entry.has /\ entry.has \cap {"author", "published", "summary"} = {}

\* C13: an entry that has a link but lacks author, published and summary
\* yields exactly one Article, with author "Unknown Author", published
\* "No Date" and summary None (null), and parse_feed returns normally.
C13_BareEntry ==
    (fetched.feed.fetch = "ok" /\ ~BadFeed(fetched.feed))
        => /\ fetched.outcome = "returned"
           /\ \A i \in 1..Len(Consumed) :
                 Bare(Consumed[i])
                    => /\ Cardinality(ArticlesOf(Consumed[i])) = 1
                       /\ \A j \in ArticlesOf(Consumed[i]) :
                             /\ articles[j].author = "Unknown Author"
                             /\ articles[j].published = "No Date"
                             /\ articles[j].summary = None

\* a bare entry between two others has its Article
C13_Witness ==
    /\ EntriesRead /\ Len(Consumed) = 3
    /\ ~Bare(Consumed[1]) /\ Bare(Consumed[2])
    /\ ArticlesOf(Consumed[2]) = {2}
    /\ articles[2].author = "Unknown Author"

\* C14: an entry with a link whose full-text download or parse raises yields
\* exactly one Article whose text is "Error parsing full article content.";
\* when the enrichment succeeds the text is the extracted body.
C14_EnrichmentText ==
    EntriesRead
        => \A i \in 1..Len(Consumed) :
              "link" \in Consumed[i].has
                 => /\ Cardinality(ArticlesOf(Consumed[i])) = 1
                    /\ \A j \in ArticlesOf(Consumed[i]) :
                          articles[j].text =
                             IF Consumed[i].enrich = "fail" THEN EnrichmentError
                             ELSE BodyText(Consumed[i])

\* one entry whose download fails and one whose download succeeds
C14_Witness ==
    /\ EntriesRead /\ Len(articles) = 2
    /\ Consumed[1].enrich = "fail" /\ articles[1].text = EnrichmentError
    /\ Consumed[2].enrich = "ok" /\ articles[2].text = BodyText(Consumed[2])

\* C20: an entry that has no link still yields exactly one Article, with
\* link "" (and title "No Title" when the title is absent too): the Articles
\* with an empty link are as many as the entries without a link.
C20_Original ==
    EntriesRead
        => /\ Cardinality({j \in 1..Len(articles) : articles[j].link = ""})
                = Cardinality({i \in 1..Len(Consumed) : "link" \notin Consumed[i].has})
           /\ \A j \in 1..Len(articles) :
                 articles[j].link = "" => articles[j].title = "No Title"

\* The entries the loop went over whose normalization raises AttributeError.
FieldAccessError(entry) == "link" \notin entry.has

\* C21: an entry whose normalization fails with a field-access error yields
\* no Article; every other entry the loop goes over yields exactly one, and
\* the Articles are in the order of their entries in the feed.
C21_OnlyFailingSkipped ==
    EntriesRead
        => /\ \A i \in 1..Len(Consumed) :
                 IF FieldAccessError(Consumed[i])
                 THEN \A j \in 1..Len(articles) : articles[j].title # Get(Consumed[i], "title", "No Title")
                 ELSE Cardinality(ArticlesOf(Consumed[i])) = 1
           /\ Len(articles) =
                 Cardinality({i \in 1..Len(Consumed) : ~FieldAccessError(Consumed[i])})
           /\ \A i, k \in 1..Len(Consumed) :
                 (i < k /\ ~FieldAccessError(Consumed[i]) /\ ~FieldAccessError(Consumed[k]))
                    => \A j \in ArticlesOf(Consumed[i]), l \in ArticlesOf(Consumed[k]) : j < l

\* the second of three entries is skipped, the first and the third are not
C21_Witness ==
    /\ EntriesRead /\ Len(Consumed) = 3
    /\ ~FieldAccessError(Consumed[1]) /\ FieldAccessError(Consumed[2])
    /\ ~FieldAccessError(Consumed[3])
    /\ Len(articles) = 2
    /\ ArticlesOf(Consumed[1]) = {1} /\ ArticlesOf(Consumed[3]) = {2}

(***************************************************************************)
(* Properties of generate_epub.                                            *)
(***************************************************************************)
Generated == epub.op = "generate"

\* The book of the document found at the path the call returned.
ReturnedBook == outdir[epub.path].book

\* C15: generate_epub on an empty collection returns normally, writes
\* nothing (every file of the output directory is what it was) and tells the
\* caller so: the value returned is "", the path of no document.
C15_EmptyWritesNothing ==
    (Generated /\ epub.articles = <<>>)
        => /\ epub.outcome = "returned"
           /\ epub.path = "" /\ epub.path \notin OutputPaths
           /\ outdir = epub.pre

\* an empty collection, and the document of an earlier run is still there
C15_Witness ==
    /\ Generated /\ epub.articles = <<>> /\ epub.filename = "paper"
    /\ epub.outcome = "returned"
    /\ outdir[OutputPath("paper")] = EpubFile(OldBook)

\* C16: for a non-empty list of Articles as parse_feed produces them,
\* generate_epub produces a document with one chapter per Article in input
\* order, the spine being nav followed by the chapters and the table of
\* contents the 'Table of Contents' link followed by the chapters.
C16_Original ==
    (/\ Generated /\ epub.articles # <<>> /\ epub.write = "written"
     /\ \A i \in 1..Len(epub.articles) : epub.articles[i] = FeedArticle(i))
        => /\ epub.outcome = "returned"
           /\ epub.path \in OutputPaths
           /\ outdir[epub.path].kind = "epub"
           /\ Len(ReturnedBook.items) = Len(epub.articles)
           /\ \A i \in 1..Len(epub.articles) :
                 ReturnedBook.items[i].title = epub.articles[i].title
           /\ ReturnedBook.spine = <<"nav">> \o ReturnedBook.items
           /\ ReturnedBook.toc = <<TocLink>> \o ReturnedBook.items

\* C17: generate_epub on a non-empty collection either leaves a complete
\* document at the output path and returns that path, or raises and leaves
\* no partial artifact at the output path.
C17_Original ==
    (Generated /\ epub.articles # <<>>)
        => \/ /\ epub.outcome = "returned"
              /\ epub.path = OutputPath(epub.filename)
              /\ outdir[epub.path].kind = "epub"
           \/ /\ epub.outcome = "raised"
              /\ outdir[OutputPath(epub.filename)].kind # "partial"

\* C18: the document generate_epub produces has no chapter and no entry of
\* the table of contents for an Article with an empty title, and has a
\* chapter for every other Article of the input.
C18_Original ==
    (Generated /\ epub.outcome = "returned" /\ epub.articles # <<>>)
        => /\ \A k \in 1..Len(ReturnedBook.items) : ReturnedBook.items[k].title # ""
           /\ \A k \in 1..Len(ReturnedBook.toc) : ReturnedBook.toc[k].title # ""
           /\ \A i \in 1..Len(epub.articles) :
                 epub.articles[i].title # ""
                    => \E k \in 1..Len(ReturnedBook.items) :
                          ReturnedBook.items[k].title = epub.articles[i].title

(***************************************************************************)
(* Failed saves.                                                           *)
(***************************************************************************)
\* The list a mutating call leaves in memory.
Mutated(call) ==
    IF call.op = "add" THEN AppendFeed(call.pre, call.cfg)
    ELSE IF call.op = "remove" THEN RemoveMatching(call.pre, call.url)
    ELSE ReplaceFirst(call.pre, call.url, call.cfg)

\* C19: when the save inside add_feed, remove_feed or update_feed fails, the
\* call raises and feeds_data holds the mutated list; a save_feeds leaves
\* feeds_data alone, and one that succeeds right after the failed call
\* writes exactly that list to the backing file.
C19_RetryWritesMemory ==
    [][ /\ (last'.op \in MutatingOps /\ ~last'.ok) => feeds_data' = Mutated(last')
        /\ (last.op \in MutatingOps /\ ~last.ok /\ last'.op = "save")
              => /\ feeds_data' = feeds_data
                 /\ last'.ok => /\ file' = FileOf(Serialize(feeds_data))
                                /\ HoldsRecords(file'.text, feeds_data) ]_vars

\* an add_feed whose save failed, then a save_feeds that succeeded
C19_Witness ==
    /\ last.op = "save" /\ last.ok /\ last.retry
    /\ feeds_data # <<>> /\ last.pre = feeds_data
    /\ file = FileOf(Serialize(feeds_data))

(***************************************************************************)
(* Properties of the GUI callbacks.                                        *)
(***************************************************************************)
\* C22: after any sequence of EpistleGUI.add_feed, edit_feed and delete_feed
\* from an empty store, every url in feeds_data starts with http:// or
\* https:// and no two entries share a url.
C22_Original ==
    /\ \A i \in 1..Len(feeds_data) : StartsWithHttp(feeds_data[i].url)
    /\ UniqueUrls(feeds_data)

====
